---- MODULE Spec2Model ----
(***************************************************************************)
(* Model of the MCP chat client (mcp-client/src/mcp.ts): the registry of   *)
(* tool-server connections, the namespaced tool catalog, the routing of a  *)
(* qualified tool name, the accumulation of a streamed response and the    *)
(* turn state machine of processQuery.                                     *)
(*                                                                         *)
(* A string is a sequence of tokens; a token is a TLA+ string standing for *)
(* one character or for a fixed piece of text.  Concatenation, indexOf and *)
(* substring work on the token sequence as they do on the characters.      *)
(***************************************************************************)
EXTENDS Integers, Sequences, FiniteSets, TLC

VARIABLES serverConnections, allTools, conversationHistory,
          pc, connect, turn, session, acc, callers, handles, main, chat,
          sse

vars == <<serverConnections, allTools, conversationHistory,
          pc, connect, turn, session, acc, callers, handles, main, chat,
          sse>>

\* ------------------------------------------------------------------ bounds
\* catalog entries allTools may hold when connectToServers is called
MaxCatalog == 2
\* messages the history may hold when a turn starts
MaxHistory == 1

\* ------------------------------------------------------- string primitives
UNDEFINED == <<"undefined">>
NoValue == "none"

\* the last occurrence instead of the first
LastIndexOf(s, c) ==
  IF \E i \in 1..Len(s) : s[i] = c
  THEN (CHOOSE i \in 1..Len(s) : s[i] = c /\ \A j \in (i+1)..Len(s) : s[j] # c) - 1
  ELSE -1

\* String.prototype.indexOf for a one-character needle, 0-based, -1 if absent
IndexOf(s, c) ==
  IF \E i \in 1..Len(s) : s[i] = c
  THEN (CHOOSE i \in 1..Len(s) : s[i] = c /\ \A j \in 1..(i-1) : s[j] # c) - 1
  ELSE -1

\* String.prototype.substring(from, to), 0-based, to exclusive
Substring(s, from, to) == SubSeq(s, from + 1, to)

\* String.prototype.substring(from)
SubstringFrom(s, from) == SubSeq(s, from + 1, Len(s))

\* Array.prototype.join
RECURSIVE Join(_, _)
Join(parts, sep) ==
  IF Len(parts) = 0 THEN <<>>
  ELSE IF Len(parts) = 1 THEN parts[1]
  ELSE parts[1] \o sep \o Join(Tail(parts), sep)

NL == <<"\n">>

\* ---------------------------------------------------------- tool servers
\* logical server names of the configuration (keys of mcpServers)
SrvA == <<"a">>
SrvB == <<"b">>
SrvAB == <<"a", "_", "b">>
ServerNames == {SrvA, SrvB, SrvAB}

\* bare tool names a server may advertise
ToolR == <<"r">>
ToolBR == <<"b", "_", "r">>

\* a tool as listTools() reports it
Advert(n) == [name |-> n, description |-> <<"d">>]

\* the catalog each server answers listTools() with
AdvertisedTools(serverName) ==
  IF serverName = SrvA THEN <<Advert(ToolBR), Advert(ToolR)>>
  ELSE <<Advert(ToolR)>>

\* outcome of connecting to one server: client.connect rejects, listTools
\* rejects, or both resolve
ConnectOutcomes == {"connectFails", "listFails", "ok"}

\* Object.keys(config.mcpServers) of the configurations loaded
Configs == { <<SrvA>>, <<SrvAB>>, <<SrvB, SrvA>>, <<SrvA, SrvAB, SrvB>> }

\* ------------------------------------------------------------- registry
\* the separator of a qualified tool name
Separator == "_"

\* `${serverName}_${tool.name}`
QualifiedName(serverName, toolName) == serverName \o <<Separator>> \o toolName

\* one entry of tools in connectToSingleServer
NamespacedTool(serverName, tool) ==
  [type |-> "function",
   name |-> QualifiedName(serverName, tool.name),
   description |-> <<"[">> \o serverName \o <<"] ">> \o tool.description]

\* toolsResult.tools.map(...)
NamespacedTools(serverName, tools) ==
  [i \in 1..Len(tools) |-> NamespacedTool(serverName, tools[i])]

\* Map.prototype.has / get over the insertion-ordered entry list
MapHas(m, k) == \E i \in 1..Len(m) : m[i].name = k
MapIndex(m, k) == CHOOSE i \in 1..Len(m) : m[i].name = k
MapGet(m, k) == m[MapIndex(m, k)]

\* Map.prototype.set: an existing key keeps its position, a new key goes last
MapSet(m, k, v) ==
  IF MapHas(m, k) THEN [m EXCEPT ![MapIndex(m, k)] = v] ELSE Append(m, v)

\* Array.from(map.keys())
MapKeys(m) == [i \in 1..Len(m) |-> m[i].name]

\* allTools.push(...tools)
PushTools(catalog, tools) == catalog \o tools

\* the registry and catalog after connectToSingleServer returned normally
RegisterConnection(conns, serverName, tools) ==
  MapSet(conns, serverName, [name |-> serverName, tools |-> tools])

\* the test at the end of connectToServers
NoServerConnected(conns) == Len(conns) = 0

\* ------------------------------------------------------ JSON conversion
\* Argument text is made of the tokens "{", "}", " " (white space between
\* JSON tokens) and "k" (one member, "key":value).

\* the text without its insignificant white space
RECURSIVE StripSpace(_)
StripSpace(text) ==
  IF Len(text) = 0 THEN <<>>
  ELSE IF Head(text) = " " THEN StripSpace(Tail(text))
  ELSE <<Head(text)>> \o StripSpace(Tail(text))

\* JSON.parse: the members of the object, or a SyntaxError
JSONParse(text) ==
  LET t == StripSpace(text)
  IN IF t = <<"{", "}">> THEN [ok |-> TRUE, value |-> <<>>]
     ELSE IF t = <<"{", "k", "}">> THEN [ok |-> TRUE, value |-> <<"k">>]
     ELSE [ok |-> FALSE, value |-> <<>>]

\* JSON.stringify of a parsed object: no white space
JSONStringify(value) == <<"{">> \o value \o <<"}">>

\* toolCall.function.arguments || "{}"
ArgumentsOrEmptyObject(arguments) ==
  IF Len(arguments) = 0 THEN <<"{", "}">> ELSE arguments

\* JSON.parse(toolCall.function.arguments || "{}")
\* arguments text that does not parse counts as no arguments
ParseToolArgsLenient(arguments) ==
  IF JSONParse(ArgumentsOrEmptyObject(arguments)).ok
  THEN JSONParse(ArgumentsOrEmptyObject(arguments))
  ELSE [ok |-> TRUE, value |-> <<>>]

ParseToolArgs(arguments) == JSONParse(ArgumentsOrEmptyObject(arguments))

\* ------------------------------------------------------ stream fragments
\* a chunk of the response stream: delta.content and delta.tool_calls
Txt(s) == [content |-> s, tool_calls |-> <<>>]
Call(i, n, a) == [index |-> i, type |-> "", name |-> n, arguments |-> a]
Calls(cs) == [content |-> <<>>, tool_calls |-> cs]

ArgsEmpty == <<"{", "}">>
ArgsK == <<"{", " ", "k", "}">>

\* the response streams of the first generation request
TextStream == << Txt(<<" ", "h">>), Txt(<<"i">>) >>
EmptyStream == << >>
SplitCallStream ==
  << Calls(<<Call(0, SrvA, <<>>)>>),
     Calls(<<Call(0, <<"_", "r">>, <<"{", " ">>)>>),
     Calls(<<Call(0, <<>>, <<"k", "}">>)>>) >>
TwoCallStream ==
  << [content |-> <<"h">>, tool_calls |-> <<Call(2, <<"b", "_", "r">>, ArgsEmpty)>>],
     Calls(<<Call(0, <<"a", "_", "b", "_", "r">>, <<>>)>>) >>
SameChunkCallsStream ==
  << Calls(<<Call(3, <<"b", "_">>, ArgsK), Call(1, <<"a", "_">>, <<>>)>>),
     Calls(<<Call(1, <<"b", "_", "r">>, ArgsK), Call(3, <<"r">>, <<>>)>>) >>
NoPrefixStream == << Calls(<<Call(1, ToolR, ArgsEmpty)>>) >>
BadJsonStream == << Calls(<<Call(0, <<"a", "_", "r">>, <<"{">>)>>) >>
NoNameStream == << Txt(<<"h">>), Calls(<<Call(0, <<>>, ArgsEmpty)>>) >>

Streams ==
  { TextStream, EmptyStream, SplitCallStream, TwoCallStream,
    SameChunkCallsStream, NoPrefixStream, BadJsonStream, NoNameStream }

\* the response streams of the follow-up request
FollowUpStreams ==
  { << >>,
    << Txt(<<"o">>), Calls(<<Call(0, <<"b", "_", "r">>, ArgsEmpty)>>), Txt(<<"k">>) >> }

\* the user's questions
Queries == { <<"q">> }

\* result.content of a tool server
ToolResults == { <<"s">> }

\* -------------------------------------------------- handleStreamResponse
\* an array element that was never assigned
Hole == [hole |-> TRUE]

\* arr[index], 0-based; undefined beyond the length
ArrayGet(arr, index) == IF index < Len(arr) THEN arr[index + 1] ELSE Hole

\* arr[index] = v, 0-based; the array grows with holes when index >= length
ArraySet(arr, index, v) ==
  IF index < Len(arr) THEN [arr EXCEPT ![index + 1] = v]
  ELSE arr \o [i \in 1..(index - Len(arr)) |-> Hole] \o <<v>>

\* the name and the arguments assigned (=) instead of appended (+=)
AccumulateToolCallOverwrite(pending, toolCall) ==
  LET index == toolCall.index
      created ==
        IF ArrayGet(pending, index) = Hole
        THEN ArraySet(pending, index,
               [type |-> IF toolCall.type # "" THEN toolCall.type ELSE "function",
                name |-> <<>>, arguments |-> <<>>])
        ELSE pending
      currentTool == ArrayGet(created, index)
  IN ArraySet(created, index,
       [currentTool EXCEPT
          !.name = IF toolCall.name # <<>> THEN toolCall.name ELSE @,
          !.arguments = IF toolCall.arguments # <<>> THEN toolCall.arguments
                        ELSE @])

\* the body of `for (const toolCall of delta.tool_calls)`
AccumulateToolCall(pending, toolCall) ==
  LET index == toolCall.index
      created ==
        IF ArrayGet(pending, index) = Hole
        THEN ArraySet(pending, index,
               [type |-> IF toolCall.type # "" THEN toolCall.type ELSE "function",
                name |-> <<>>, arguments |-> <<>>])
        ELSE pending
      currentTool == ArrayGet(created, index)
  IN ArraySet(created, index,
       [currentTool EXCEPT !.name = @ \o toolCall.name,
                           !.arguments = @ \o toolCall.arguments])

RECURSIVE AccumulateToolCalls(_, _)
AccumulateToolCalls(pending, toolCalls) ==
  IF Len(toolCalls) = 0 THEN pending
  ELSE AccumulateToolCalls(AccumulateToolCall(pending, Head(toolCalls)),
                           Tail(toolCalls))

\* String.prototype.trimStart
IsWhitespace(c) == c \in {" ", "\n"}

RECURSIVE TrimStart(_)
TrimStart(s) ==
  IF Len(s) > 0 /\ IsWhitespace(Head(s)) THEN TrimStart(Tail(s)) ELSE s

\* the first text of a stream loses its leading whitespace
AppendContentTrimmed(currentContent, content) ==
  currentContent \o (IF currentContent = <<>> THEN TrimStart(content)
                     ELSE content)

\* currentContent += delta.content
AppendContent(currentContent, content) == currentContent \o content

\* console.log(delta.content): the text and a line break
StdoutWriteLine(emitted, text) == emitted \o text \o NL

\* process.stdout.write(delta.content)
StdoutWrite(emitted, text) == emitted \o text

\* pendingToolCalls returned as it is
KeepHoles(arr) == arr

\* pendingToolCalls.filter(Boolean)
FilterBoolean(arr) == SelectSeq(arr, LAMBDA e : e # Hole)

\* DataTransform._transform: formatMsg of one message
FormatMsg(content, msg) == IF content = <<>> THEN TrimStart(msg) ELSE msg

\* ----------------------------------------------------------- callTool
\* the last connected server instead of the first
FallbackServerLast(conns) ==
  IF Len(conns) > 0 THEN MapKeys(conns)[Len(conns)] ELSE UNDEFINED

\* Array.from(this.serverConnections.keys())[0]
FallbackServer(conns) ==
  IF Len(conns) > 0 THEN MapKeys(conns)[1] ELSE UNDEFINED

\* the server name and bare tool name callTool derives from toolName
ResolveTool(toolName, conns) ==
  LET underscoreIndex == IndexOf(toolName, Separator)
  IN IF underscoreIndex # -1
     THEN [serverName |-> Substring(toolName, 0, underscoreIndex),
           actualToolName |-> SubstringFrom(toolName, underscoreIndex + 1)]
     ELSE [serverName |-> FallbackServer(conns),
           actualToolName |-> toolName]

\* ------------------------------------------------------- processQuery
UserMessage(text) == [role |-> "user", content |-> text]
AssistantMessage(text) == [role |-> "assistant", content |-> text]

\* `[Calling tool ${toolName} with args ${JSON.stringify(toolArgs)}]`
Announcement(toolName, toolArgs) ==
  <<"[Calling tool ">> \o toolName \o <<" with args ">>
    \o JSONStringify(toolArgs) \o <<"]">>

\* the follow-up messages without the tool result
TempMessagesWithoutResult(history, toolResult) == history

\* tempMessages of generateFollowUpResponse
TempMessages(history, toolResult) == Append(history, UserMessage(toolResult))

\* the last reconstructed call instead of the first
LastToolCall(toolCalls) == toolCalls[Len(toolCalls)]

\* streamResult.toolCalls[0]
FirstToolCall(toolCalls) == toolCalls[1]

\* the parts joined by a space instead of a newline
JoinFinalTextBySpace(finalText) == Join(finalText, <<" ">>)

\* finalText.join("\n")
JoinFinalText(finalText) == Join(finalText, NL)

\* only the follow-up text is recorded
FinalAssistantMessageFollowUpOnly(finalText) ==
  AssistantMessage(finalText[Len(finalText)])

\* the assistant message pushed after the follow-up
FinalAssistantMessage(finalText) == AssistantMessage(JoinFinalText(finalText))

\* a generation request as the LLM endpoint receives it
Request(messages, tools, withTools) ==
  [messages |-> messages, tools |-> tools,
   tool_choice |-> IF withTools THEN "auto" ELSE NoValue]

\* the first request without the catalog
FirstRequestWithoutTools(messages, catalog) == Request(messages, <<>>, FALSE)

\* the first request of processQuery
FirstRequest(messages, catalog) == Request(messages, catalog, TRUE)

\* the request of generateFollowUpResponse
FollowUpRequest(messages) == Request(messages, <<>>, FALSE)

\* the loop of connectToServers stops at the first failing server
RemainingServersAbortOnFailure(pending, outcome) ==
  IF outcome = "ok" THEN Tail(pending) ELSE <<>>

\* the servers left to try after one iteration of the loop of
\* connectToServers: the catch clause swallows the failure
RemainingServers(pending, outcome) == Tail(pending)

\* the streamed content is pushed even when it is empty
HasContentAlways(content) == TRUE

\* `if (streamResult.content)`
HasContent(content) == Len(content) > 0

\* conversationHistory.push(message) replaces the last entry
PushMessageOverLast(history, message) ==
  IF Len(history) = 0 THEN <<message>>
  ELSE [history EXCEPT ![Len(history)] = message]

\* conversationHistory.push(message)
PushMessage(history, message) == Append(history, message)

\* clearConversationHistory keeps the first entry
ClearedHistoryKeepFirst(history) ==
  IF Len(history) = 0 THEN <<>> ELSE <<history[1]>>

\* this.conversationHistory = []
ClearedHistory(history) == <<>>

\* cleanup stops closing at the first close that fails
CloseAttemptsAbortOnFailure(conns, closeFails) ==
  LET failing == {i \in 1..Len(conns) : conns[i].name \in closeFails}
      last == IF failing = {} THEN Len(conns)
              ELSE CHOOSE i \in failing : \A j \in failing : i <= j
  IN [i \in 1..last |->
        [name |-> conns[i].name, failed |-> conns[i].name \in closeFails]]

\* the close calls of cleanup, in Map order: each is tried, a failure is
\* caught and logged
CloseAttempts(conns, closeFails) ==
  [i \in 1..Len(conns) |->
     [name |-> conns[i].name, failed |-> conns[i].name \in closeFails]]

\* the loop of chatLoop ends when a turn fails
LoopAfterTurnQuitOnError(status) ==
  IF status = "error" THEN "quit" ELSE "prompt"

\* chatLoop after processQuery settled: the inner try/catch reports and the
\* while loop prompts again
LoopAfterTurn(status) == "prompt"

\* what chatLoop prints after processQuery settled
ReportAfterTurn(status) == IF status = "error" THEN "failed" ELSE "done"

\* the sets of connections whose close() rejects
CloseFailures == { {}, {SrvA}, {SrvB, SrvAB} }

NoTurn ==
  [status |-> NoValue, query |-> <<>>, histAtStart |-> <<>>, requests |-> <<>>,
   stream |-> <<>>, currentContent |-> <<>>, pendingToolCalls |-> <<>>,
   emitted |-> <<>>, streamResult |-> [content |-> <<>>, toolCalls |-> <<>>],
   response |-> <<>>, followUpResponse |-> <<>>,
   finalText |-> <<>>, toolName |-> <<>>, toolArgs |-> <<>>,
   serverCalls |-> <<>>, toolResult |-> <<>>, followUpContent |-> <<>>,
   returned |-> <<>>, error |-> NoValue]

NoConnect ==
  [config |-> <<>>, before |-> <<>>, pending |-> <<>>, attempted |-> <<>>,
   outcomes |-> <<>>, status |-> NoValue]

\* chatLoop position and its last report; the last cleanup; whether the
\* history was cleared since the last turn started, whether the clear
\* dropped entries, and whether the turn is the first after a clear
NoSession ==
  [loop |-> "off", report |-> NoValue, cleared |-> FALSE, dropped |-> FALSE,
   afterClear |-> FALSE,
   cleanup |-> NoValue, closeBefore |-> <<>>, closeLog |-> <<>>]

\* no chatLoop is running: the client is driven through its methods
LoopIdle == session.loop \in {"off", "quit"}

\* the session when connectToServers or chatLoop is called
MethodCalled ==
  [NoSession EXCEPT !.cleared = session.cleared, !.dropped = session.dropped]

\* the session when the history is cleared
HistoryCleared ==
  [NoSession EXCEPT !.cleared = TRUE, !.dropped = Len(conversationHistory) > 0]

\* the session when processQuery is called
TurnStarted ==
  [NoSession EXCEPT !.afterClear = session.cleared,
                    !.dropped = session.cleared /\ session.dropped]

\* the accumulators of one stream: handleStreamResponse, the loop of
\* generateFollowUpResponse and DataTransform, fed the same fragments
NewAcc(fragments) ==
  [input |-> fragments, rest |-> fragments, done |-> FALSE,
   currentContent |-> <<>>, pendingToolCalls |-> <<>>, emitted |-> <<>>,
   terminator |-> <<>>, result |-> NoValue,
   followUpContent |-> <<>>, followUpEmitted |-> <<>>,
   transformContent |-> <<>>, transformPushed |-> <<>>,
   transformTerminator |-> <<>>, transformDone |-> NoValue]

NoAcc == NewAcc(<<>>)

NoCallers == <<>>

\* the clients that connected, with the close calls made on each, and the
\* client each registry entry holds
NoHandles == [clients |-> <<>>, owners |-> <<>>]

\* main has not started
NoMain == [pc |-> "start", exitCode |-> NoValue]

\* the ChatGptClient after construction
NoChat == [pc |-> "idle", systemPrompt |-> <<>>, queue |-> <<>>,
           enqueued |-> <<>>, failed |-> FALSE, messages |-> <<>>]

\* no response is being transformed
NoSse == [events |-> <<>>, rest |-> <<>>, content |-> <<>>, pushed |-> <<>>,
          done |-> <<>>]

Init ==
  /\ session = NoSession
  /\ acc = NoAcc
  /\ callers = NoCallers
  /\ handles = NoHandles
  /\ main = NoMain
  /\ chat = NoChat
  /\ sse = NoSse
  /\ serverConnections = <<>>
  /\ allTools = <<>>
  /\ conversationHistory = <<>>
  /\ pc = "idle"
  /\ connect = NoConnect
  /\ turn = NoTurn

\* connectToServers: entry, Object.keys(config.mcpServers)
ConnectToServersStep(config) ==
  /\ pc = "idle"
  /\ LoopIdle
  /\ session' = MethodCalled
  /\ Len(allTools) <= MaxCatalog
  /\ pc' = "connecting"
  /\ connect' = [NoConnect EXCEPT !.config = config, !.pending = config,
                                  !.before = MapKeys(serverConnections),
                                  !.status = "running"]
  /\ turn' = NoTurn
  /\ UNCHANGED <<serverConnections, allTools, conversationHistory>>

ConnectToServers(config) ==
  /\ ConnectToServersStep(config)
  /\ UNCHANGED <<acc, callers, handles, main, chat, sse>>

\* one iteration of the loop of connectToServers: connectToSingleServer
\* inside try/catch
ConnectToSingleServerStep(outcome) ==
  /\ pc = "connecting"
  /\ Len(connect.pending) > 0
  /\ LET serverName == Head(connect.pending)
         tools == NamespacedTools(serverName, AdvertisedTools(serverName))
     IN /\ IF outcome = "ok"
           THEN /\ serverConnections' =
                     RegisterConnection(serverConnections, serverName, tools)
                /\ allTools' = PushTools(allTools, tools)
           ELSE UNCHANGED <<serverConnections, allTools>>
        /\ connect' = [connect EXCEPT
             !.pending = RemainingServers(@, outcome),
             !.attempted = Append(@, serverName),
             !.outcomes = Append(@, outcome)]
  /\ UNCHANGED <<conversationHistory, pc, turn, session>>

ConnectToSingleServer(outcome) ==
  /\ ConnectToSingleServerStep(outcome)
  /\ UNCHANGED <<acc, callers, handles, main, chat, sse>>

\* connectToServers: after the loop
ConnectToServersEndStep ==
  /\ pc = "connecting"
  /\ Len(connect.pending) = 0
  /\ connect' = [connect EXCEPT
       !.status = IF NoServerConnected(serverConnections) THEN "threw" ELSE "ok"]
  /\ pc' = "idle"
  /\ UNCHANGED <<serverConnections, allTools, conversationHistory, turn,
                 session>>

ConnectToServersEnd ==
  /\ ConnectToServersEndStep
  /\ UNCHANGED <<acc, callers, handles, main, chat, sse>>

\* cleanup: close every connection, then clear registry, catalog and history
CleanupStep(closeFails) ==
  /\ pc = "idle"
  /\ LoopIdle
  /\ session' = [HistoryCleared EXCEPT
       !.cleanup = "returned",
       !.closeBefore = MapKeys(serverConnections),
       !.closeLog = CloseAttempts(serverConnections, closeFails)]
  /\ serverConnections' = <<>>
  /\ allTools' = <<>>
  /\ conversationHistory' = ClearedHistory(conversationHistory)
  /\ connect' = NoConnect
  /\ turn' = NoTurn
  /\ UNCHANGED pc

Cleanup(closeFails) ==
  /\ CleanupStep(closeFails)
  /\ UNCHANGED <<acc, callers, handles, main, chat, sse>>

\* the state left by `throw error` in processQuery
Throw(err) ==
  /\ turn' = [turn EXCEPT !.status = "error", !.error = err]
  /\ pc' = "idle"

\* processQuery up to its first await: push the user message and submit
\* the first request
SubmitQuery(query) ==
  /\ pc = "idle"
  /\ Len(conversationHistory) <= MaxHistory
  /\ conversationHistory' = PushMessage(conversationHistory, UserMessage(query))
  /\ turn' = [NoTurn EXCEPT
       !.status = "running", !.query = query,
       !.histAtStart = conversationHistory,
       !.requests = <<FirstRequest(conversationHistory', allTools)>>]
  /\ pc' = "request1"
  /\ connect' = NoConnect
  /\ UNCHANGED <<serverConnections, allTools>>
  /\ UNCHANGED <<acc, callers, handles, main, chat, sse>>

\* processQuery called directly
ProcessQuery(query) ==
  /\ LoopIdle
  /\ SubmitQuery(query)
  /\ session' = TurnStarted

\* chatLoop is called: it prompts for the first question
ChatLoopStep ==
  /\ pc = "idle"
  /\ LoopIdle
  /\ session' = [MethodCalled EXCEPT !.loop = "prompt"]
  /\ UNCHANGED <<serverConnections, allTools, conversationHistory, pc, connect,
                 turn>>

ChatLoop ==
  /\ ChatLoopStep
  /\ UNCHANGED <<acc, callers, handles, main, chat, sse>>

\* chatLoop: the prompt resolves with a question and processQuery is called
ChatLoopQuestion(message) ==
  /\ session.loop = "prompt"
  /\ SubmitQuery(message)
  /\ session' = [TurnStarted EXCEPT !.loop = "turn"]

\* chatLoop goes on without awaiting processQuery
TurnSettledNoAwait == TRUE

\* `await this.processQuery(message)`: the promise has settled
TurnSettled == pc = "idle"

\* chatLoop: processQuery settled; report, print the separator, loop
ChatLoopAfterTurn ==
  /\ session.loop = "turn"
  /\ TurnSettled
  /\ session' = [session EXCEPT !.loop = LoopAfterTurn(turn.status),
                                !.report = ReportAfterTurn(turn.status)]
  /\ UNCHANGED <<serverConnections, allTools, conversationHistory, pc, connect,
                 turn>>
  /\ UNCHANGED <<acc, callers, handles, main, chat, sse>>

\* chatLoop: the prompt rejects; the outer catch logs and chatLoop returns
ChatLoopQuitStep ==
  /\ session.loop = "prompt"
  /\ pc = "idle"
  /\ session' = [session EXCEPT !.loop = "quit"]
  /\ UNCHANGED <<serverConnections, allTools, conversationHistory, pc, connect,
                 turn>>

ChatLoopQuit ==
  /\ ChatLoopQuitStep
  /\ UNCHANGED <<acc, callers, handles, main, chat, sse>>

\* the first request resolves with a response stream
FirstResponse(stream) ==
  /\ pc = "request1"
  /\ turn' = [turn EXCEPT !.stream = stream, !.response = stream]
  /\ pc' = "stream1"
  /\ UNCHANGED <<serverConnections, allTools, conversationHistory, connect,
                 session>>
  /\ UNCHANGED <<acc, callers, handles, main, chat, sse>>

\* a generation request rejects
\* the catch of processQuery restores the history of the start of the turn
RequestFailsWithRollback ==
  /\ pc \in {"request1", "request2"}
  /\ Throw("UpstreamError")
  /\ conversationHistory' = turn.histAtStart
  /\ UNCHANGED <<serverConnections, allTools, connect, session>>
  /\ UNCHANGED <<acc, callers, handles, main, chat, sse>>

RequestFails ==
  /\ pc \in {"request1", "request2"}
  /\ Throw("UpstreamError")
  /\ UNCHANGED <<serverConnections, allTools, conversationHistory, connect,
                 session>>
  /\ UNCHANGED <<acc, callers, handles, main, chat, sse>>

\* handleStreamResponse: one iteration of `for await (const chunk of response)`
StreamChunk ==
  /\ pc = "stream1"
  /\ Len(turn.stream) > 0
  /\ LET delta == Head(turn.stream)
     IN turn' = [turn EXCEPT
          !.stream = Tail(@),
          !.currentContent = AppendContent(@, delta.content),
          !.emitted = StdoutWrite(@, delta.content),
          !.pendingToolCalls = AccumulateToolCalls(@, delta.tool_calls)]
  /\ UNCHANGED <<serverConnections, allTools, conversationHistory, pc, connect,
                 session>>
  /\ UNCHANGED <<acc, callers, handles, main, chat, sse>>

\* the response stream breaks while it is iterated
StreamBreaks ==
  /\ pc \in {"stream1", "stream2"}
  /\ Throw("UpstreamError")
  /\ UNCHANGED <<serverConnections, allTools, conversationHistory, connect,
                 session>>
  /\ UNCHANGED <<acc, callers, handles, main, chat, sse>>

\* processQuery from the end of the first stream to the tool call (or to
\* the return when no tool call was reconstructed)
FirstStreamEnd ==
  /\ pc = "stream1"
  /\ Len(turn.stream) = 0
  /\ LET streamResult == [content |-> turn.currentContent,
                          toolCalls |-> FilterBoolean(turn.pendingToolCalls)]
         hasContent == HasContent(streamResult.content)
         finalText == IF hasContent THEN <<streamResult.content>> ELSE <<>>
         history == IF hasContent
                    THEN PushMessage(conversationHistory,
                                     AssistantMessage(streamResult.content))
                    ELSE conversationHistory
         t1 == [turn EXCEPT !.streamResult = streamResult,
                            !.finalText = finalText]
     IN /\ conversationHistory' = history
        /\ IF Len(streamResult.toolCalls) = 0
           THEN /\ turn' = [t1 EXCEPT !.status = "ok",
                                      !.returned = JoinFinalText(finalText)]
                /\ pc' = "idle"
           ELSE LET toolCall == FirstToolCall(streamResult.toolCalls)
                    parsed == ParseToolArgs(toolCall.arguments)
                    resolved == ResolveTool(toolCall.name, serverConnections)
                    t2 == [t1 EXCEPT !.toolName = toolCall.name,
                                     !.toolArgs = parsed.value]
                IN IF ~parsed.ok
                   THEN /\ turn' = [t1 EXCEPT !.status = "error",
                                              !.error = "SyntaxError"]
                        /\ pc' = "idle"
                   ELSE IF Len(toolCall.name) = 0
                   THEN /\ turn' = [t2 EXCEPT !.status = "error",
                                              !.error = "InvalidToolCall"]
                        /\ pc' = "idle"
                   ELSE IF ~MapHas(serverConnections, resolved.serverName)
                   THEN /\ turn' = [t2 EXCEPT !.status = "error",
                                              !.error = "ServerNotFound"]
                        /\ pc' = "idle"
                   ELSE /\ turn' = [t2 EXCEPT !.serverCalls = Append(@,
                               [server |-> resolved.serverName,
                                name |-> resolved.actualToolName,
                                arguments |-> parsed.value])]
                        /\ pc' = "tool"
  /\ UNCHANGED <<serverConnections, allTools, connect, session>>
  /\ UNCHANGED <<acc, callers, handles, main, chat, sse>>

\* the tool server answers; processQuery records the announcement and
\* generateFollowUpResponse submits the follow-up request
ToolReturns(result) ==
  /\ pc = "tool"
  /\ turn' = [turn EXCEPT
       !.toolResult = result,
       !.finalText = Append(@, Announcement(turn.toolName, turn.toolArgs)),
       !.requests = Append(@,
          FollowUpRequest(TempMessages(conversationHistory, result)))]
  /\ pc' = "request2"
  /\ UNCHANGED <<serverConnections, allTools, conversationHistory, connect,
                 session>>
  /\ UNCHANGED <<acc, callers, handles, main, chat, sse>>

\* connection.client.callTool rejects
ToolFails ==
  /\ pc = "tool"
  /\ Throw("UpstreamError")
  /\ UNCHANGED <<serverConnections, allTools, conversationHistory, connect,
                 session>>
  /\ UNCHANGED <<acc, callers, handles, main, chat, sse>>

\* the follow-up request resolves with a response stream
FollowUpResponse(stream) ==
  /\ pc = "request2"
  /\ turn' = [turn EXCEPT !.stream = stream, !.followUpResponse = stream,
                          !.emitted = <<>>]
  /\ pc' = "stream2"
  /\ UNCHANGED <<serverConnections, allTools, conversationHistory, connect,
                 session>>
  /\ UNCHANGED <<acc, callers, handles, main, chat, sse>>

\* generateFollowUpResponse: one iteration of its `for await`
FollowUpChunk ==
  /\ pc = "stream2"
  /\ Len(turn.stream) > 0
  /\ LET delta == Head(turn.stream)
     IN turn' = [turn EXCEPT
          !.stream = Tail(@),
          !.followUpContent = AppendContent(@, delta.content),
          !.emitted = StdoutWrite(@, delta.content)]
  /\ UNCHANGED <<serverConnections, allTools, conversationHistory, pc, connect,
                 session>>
  /\ UNCHANGED <<acc, callers, handles, main, chat, sse>>

\* processQuery after generateFollowUpResponse returned
FollowUpEnd ==
  /\ pc = "stream2"
  /\ Len(turn.stream) = 0
  /\ LET finalText == Append(turn.finalText, turn.followUpContent)
     IN /\ conversationHistory' =
             PushMessage(conversationHistory, FinalAssistantMessage(finalText))
        /\ turn' = [turn EXCEPT !.finalText = finalText, !.status = "ok",
                                !.returned = JoinFinalText(finalText)]
  /\ pc' = "idle"
  /\ UNCHANGED <<serverConnections, allTools, connect, session>>
  /\ UNCHANGED <<acc, callers, handles, main, chat, sse>>

\* clearConversationHistory
ClearConversationHistory ==
  /\ pc = "idle"
  /\ LoopIdle
  /\ session' = HistoryCleared
  /\ conversationHistory' = ClearedHistory(conversationHistory)
  /\ connect' = NoConnect
  /\ turn' = NoTurn
  /\ UNCHANGED <<serverConnections, allTools, pc>>
  /\ UNCHANGED <<acc, callers, handles, main, chat, sse>>

Next ==
  \/ \E config \in Configs : ConnectToServers(config)
  \/ \E outcome \in ConnectOutcomes : ConnectToSingleServer(outcome)
  \/ ConnectToServersEnd
  \/ \E closeFails \in CloseFailures : Cleanup(closeFails)
  \/ \E query \in Queries : ProcessQuery(query)
  \/ ChatLoop
  \/ \E message \in Queries : ChatLoopQuestion(message)
  \/ ChatLoopAfterTurn
  \/ ChatLoopQuit
  \/ \E stream \in Streams : FirstResponse(stream)
  \/ RequestFails
  \/ StreamChunk
  \/ StreamBreaks
  \/ FirstStreamEnd
  \/ \E result \in ToolResults : ToolReturns(result)
  \/ ToolFails
  \/ \E stream \in FollowUpStreams : FollowUpResponse(stream)
  \/ FollowUpChunk
  \/ FollowUpEnd
  \/ ClearConversationHistory

Spec == Init /\ [][Next]_vars

\* ------------------------------------------- the accumulators on their own
MaxFragments == 3

\* the fragments a stream is made of: text with and without leading
\* whitespace, a delta without text, pieces of the calls of slots 0 and 2
Fragments ==
  { Txt(<<" ">>), Txt(<<" ", "h">>), Txt(<<"h">>), Txt(<<>>),
    Calls(<<Call(0, <<"a">>, <<"{">>)>>),
    Calls(<<Call(0, <<"r">>, <<"}">>)>>),
    Calls(<<Call(2, <<"b">>, <<>>)>>),
    [content |-> <<"i">>,
     tool_calls |-> <<Call(2, <<>>, <<"k">>), Call(0, <<"_">>, <<>>)>>] }

FragmentSeqs == UNION { [1..n -> Fragments] : n \in 0..MaxFragments }

InitStream ==
  /\ session = NoSession
  /\ handles = NoHandles
  /\ main = NoMain
  /\ chat = NoChat
  /\ sse = NoSse
  /\ callers = NoCallers
  /\ serverConnections = <<>>
  /\ allTools = <<>>
  /\ conversationHistory = <<>>
  /\ pc = "idle"
  /\ connect = NoConnect
  /\ turn = NoTurn
  /\ acc \in { NewAcc(fragments) : fragments \in FragmentSeqs }

\* one fragment arrives: an iteration of the `for await` of
\* handleStreamResponse and of generateFollowUpResponse, and one message
\* of DataTransform._transform
AccumulatorChunk ==
  /\ ~acc.done
  /\ Len(acc.rest) > 0
  /\ LET delta == Head(acc.rest)
         formatMsg == FormatMsg(acc.transformContent, delta.content)
     IN acc' = [acc EXCEPT
          !.rest = Tail(@),
          !.currentContent = AppendContent(@, delta.content),
          !.emitted = StdoutWrite(@, delta.content),
          !.pendingToolCalls = AccumulateToolCalls(@, delta.tool_calls),
          !.followUpContent = AppendContent(@, delta.content),
          !.followUpEmitted = StdoutWrite(@, delta.content),
          !.transformContent = @ \o formatMsg,
          !.transformPushed = @ \o formatMsg]
  /\ UNCHANGED <<serverConnections, allTools, conversationHistory, pc, connect,
                 turn, session, callers, handles,
                 main, chat, sse>>

\* the stream is exhausted: handleStreamResponse prints a line break and
\* returns, DataTransform._flush hands its content over
AccumulatorEnd ==
  /\ ~acc.done
  /\ Len(acc.rest) = 0
  /\ acc' = [acc EXCEPT
       !.done = TRUE,
       !.terminator = NL,
       !.result = [content |-> acc.currentContent,
                   toolCalls |-> FilterBoolean(acc.pendingToolCalls)],
       !.transformDone = acc.transformContent,
       !.transformTerminator = NL \o NL]
  /\ UNCHANGED <<serverConnections, allTools, conversationHistory, pc, connect,
                 turn, session, callers, handles,
                 main, chat, sse>>

NextStream ==
  \/ AccumulatorChunk
  \/ AccumulatorEnd

SpecStream == InitStream /\ [][NextStream]_vars

\* ------------------------------------------------------------ properties
\* a turn of processQuery has just returned its result
TurnReturned == pc = "idle" /\ turn.status = "ok"

\* the tool server answered and the follow-up request is in flight or done
ToolAnswered == turn.status # NoValue /\ Len(turn.requests) = 2

\* the history of the running turn once the first stream was handled: the
\* history at the start, the user query, and the first text when not empty
HistoryAfterFirstStream ==
  Append(turn.histAtStart, UserMessage(turn.query))
    \o (IF Len(turn.streamResult.content) > 0
        THEN <<AssistantMessage(turn.streamResult.content)>> ELSE <<>>)

\* the announcement text written out token by token
AnnouncementText ==
  <<"[Calling tool ">> \o turn.toolName \o <<" with args ", "{">>
    \o turn.toolArgs \o <<"}", "]">>

C2_Case ==
  /\ TurnReturned
  /\ turn.histAtStart = <<>>
  /\ Len(turn.streamResult.content) = 0
  /\ Len(turn.streamResult.toolCalls) = 1

C3_AnnouncementFirst ==
  TurnReturned =>
    turn.returned =
      IF ToolAnswered
      THEN AnnouncementText \o NL \o turn.followUpContent
      ELSE turn.streamResult.content

\* C3 (amended): a turn that dispatched a tool call returns the text of the
\* first generation and a newline when that text is not empty, then the
\* announcement, a newline and the follow-up text; a turn without tool call
\* returns the assistant text alone.
C3_ReturnedText ==
  TurnReturned =>
    turn.returned =
      IF ToolAnswered
      THEN (IF Len(turn.streamResult.content) > 0
            THEN turn.streamResult.content \o NL ELSE <<>>)
           \o AnnouncementText \o NL \o turn.followUpContent
      ELSE turn.streamResult.content

C3_Witness ==
  /\ TurnReturned
  /\ ToolAnswered
  /\ turn.streamResult.content = <<"h">>
  /\ turn.toolArgs = <<>>
  /\ turn.followUpContent = <<"o", "k">>

\* every tool-call delta of a response, in arrival order
RECURSIVE DeltasOf(_)
DeltasOf(response) ==
  IF Len(response) = 0 THEN <<>>
  ELSE Head(response).tool_calls \o DeltasOf(Tail(response))

\* the slot indexes that received a fragment
SlotIndexes(response) ==
  {DeltasOf(response)[i].index : i \in 1..Len(DeltasOf(response))}

LowestSlot(response) ==
  CHOOSE k \in SlotIndexes(response) : \A m \in SlotIndexes(response) : k <= m

\* the name and the arguments text of slot k, its fragments in arrival order
RECURSIVE SlotName(_, _)
SlotName(deltas, k) ==
  IF Len(deltas) = 0 THEN <<>>
  ELSE (IF Head(deltas).index = k THEN Head(deltas).name ELSE <<>>)
         \o SlotName(Tail(deltas), k)

RECURSIVE SlotArguments(_, _)
SlotArguments(deltas, k) ==
  IF Len(deltas) = 0 THEN <<>>
  ELSE (IF Head(deltas).index = k THEN Head(deltas).arguments ELSE <<>>)
         \o SlotArguments(Tail(deltas), k)

HasSeparator(name) == \E i \in 1..Len(name) : name[i] = Separator

\* the dispatch of the turn got as far as resolving a tool name
NameResolved == turn.status # NoValue /\ Len(turn.toolName) > 0

\* C4: a turn calls a tool server at most once; the call it makes is the
\* one reconstructed for the lowest slot index that received a fragment,
\* and a turn that returns after reconstructing calls made exactly one call.
C4_LowestSlotOnly ==
  /\ Len(turn.serverCalls) <= 1
  /\ (Len(turn.serverCalls) = 1 =>
        LET deltas == DeltasOf(turn.response)
            low == LowestSlot(turn.response)
            call == turn.serverCalls[1]
        IN /\ turn.toolName = SlotName(deltas, low)
           /\ \/ call.name = turn.toolName
              \/ QualifiedName(call.server, call.name) = turn.toolName
           /\ JSONStringify(call.arguments) =
                StripSpace(ArgumentsOrEmptyObject(SlotArguments(deltas, low))))
  /\ (TurnReturned /\ Len(turn.streamResult.toolCalls) > 0 =>
        Len(turn.serverCalls) = 1)

C4_Witness ==
  /\ TurnReturned
  /\ turn.response = SameChunkCallsStream
  /\ Len(turn.streamResult.toolCalls) = 2
  /\ turn.serverCalls =
       <<[server |-> SrvA, name |-> ToolBR, arguments |-> <<"k">>]>>
  /\ MapHas(serverConnections, SrvB)

\* C5: a turn issues one or two generation requests and at most one tool
\* invocation; the first request carries the catalog with tool_choice auto,
\* the follow-up request carries no tools; while the follow-up is streamed
\* nothing more is requested or invoked, and once its stream is exhausted
\* the turn can end and every step ends it.
C5_BoundedTurn ==
  /\ [](turn.status # NoValue =>
          /\ Len(turn.requests) \in {1, 2}
          /\ Len(turn.serverCalls) <= 1
          /\ turn.requests[1].tools = allTools
          /\ turn.requests[1].tool_choice = "auto"
          /\ (Len(turn.requests) = 2 =>
                /\ turn.requests[2].tools = <<>>
                /\ turn.requests[2].tool_choice = NoValue
                /\ Len(turn.serverCalls) = 1)
          /\ (pc = "stream2" /\ Len(turn.stream) = 0 => ENABLED FollowUpEnd))
  /\ [][pc = "stream2" =>
          /\ turn'.requests = turn.requests
          /\ turn'.serverCalls = turn.serverCalls
          /\ (Len(turn.stream) = 0 => pc' = "idle")]_vars

C5_Witness ==
  /\ TurnReturned
  /\ Len(turn.requests) = 2
  /\ Len(allTools) > 0
  /\ \E i \in 1..Len(turn.followUpResponse) :
       Len(turn.followUpResponse[i].tool_calls) > 0

\* C6: whenever the name being dispatched is the catalog name of tool t of
\* a registered server s, the call goes to the connection of s with the
\* bare name t.
C6_RoundTrip ==
  NameResolved =>
    \A i \in 1..Len(serverConnections) :
      \A j \in 1..Len(serverConnections[i].tools) :
        serverConnections[i].tools[j].name = turn.toolName =>
          /\ Len(turn.serverCalls) = 1
          /\ turn.serverCalls[1].server = serverConnections[i].name
          /\ turn.serverCalls[1].name =
               AdvertisedTools(serverConnections[i].name)[j].name

\* C7: a dispatched name that contains the separator is split at its first
\* occurrence: the server is the text before it, the bare tool name all the
\* text after it; the call is made when that server is registered and fails
\* with server-not-found otherwise.
C7_SplitAtFirstSeparator ==
  NameResolved /\ HasSeparator(turn.toolName) =>
    \A k \in 1..Len(turn.toolName) :
      (turn.toolName[k] = Separator
         /\ \A j \in 1..(k-1) : turn.toolName[j] # Separator) =>
        LET server == SubSeq(turn.toolName, 1, k - 1)
            tool == SubSeq(turn.toolName, k + 1, Len(turn.toolName))
        IN IF MapHas(serverConnections, server)
           THEN turn.serverCalls =
                  <<[server |-> server, name |-> tool,
                     arguments |-> turn.toolArgs]>>
           ELSE /\ turn.serverCalls = <<>>
                /\ turn.status = "error"
                /\ turn.error = "ServerNotFound"

C7_Witness ==
  /\ pc = "tool"
  /\ turn.toolName = <<"a", "_", "b", "_", "r">>
  /\ turn.serverCalls[1].server = SrvA
  /\ turn.serverCalls[1].name = ToolBR
  /\ MapHas(serverConnections, SrvAB)

\* C8: a dispatched name without separator is sent unchanged to the first
\* server of the registry, in the order the servers were registered; with
\* an empty registry the turn fails with server-not-found and no call.
C8_FallbackToFirstServer ==
  NameResolved /\ ~HasSeparator(turn.toolName) =>
    IF Len(serverConnections) = 0
    THEN /\ turn.serverCalls = <<>>
         /\ turn.status = "error"
         /\ turn.error = "ServerNotFound"
    ELSE turn.serverCalls =
           <<[server |-> serverConnections[1].name, name |-> turn.toolName,
              arguments |-> turn.toolArgs]>>

C8_Witness ==
  /\ pc = "tool"
  /\ ~HasSeparator(turn.toolName)
  /\ Len(serverConnections) = 2
  /\ turn.serverCalls[1].server = SrvB
  /\ turn.serverCalls[1].name = ToolR

\* a connectToServers call has just finished
ConnectFinished == pc = "idle" /\ connect.status \in {"ok", "threw"}

\* the servers of the finished call whose connect and listTools succeeded
Succeeded ==
  {connect.config[i] : i \in {j \in 1..Len(connect.outcomes) :
                                connect.outcomes[j] = "ok"}}

RegisteredNames == {serverConnections[i].name : i \in 1..Len(serverConnections)}

\* C9: when connectToServers finishes it has tried every configured server
\* in order, whatever failed before; the registry holds the servers that were
\* registered before the call and those that succeeded in it, each once (so
\* exactly the succeeded ones from an empty registry); it throws exactly
\* when the registry is empty, hence only when no server succeeded.
C9_SkipFailingServers ==
  ConnectFinished =>
    /\ connect.attempted = connect.config
    /\ Len(connect.outcomes) = Len(connect.config)
    /\ RegisteredNames =
         {connect.before[i] : i \in 1..Len(connect.before)} \cup Succeeded
    /\ Cardinality(RegisteredNames) = Len(serverConnections)
    /\ (connect.status = "threw" <=> Len(serverConnections) = 0)
    /\ (connect.status = "threw" => Succeeded = {})
    /\ (Len(connect.before) = 0 /\ Succeeded = {} => connect.status = "threw")

C9_Witness ==
  /\ ConnectFinished
  /\ connect.status = "ok"
  /\ Len(connect.before) = 0
  /\ connect.config = <<SrvA, SrvAB, SrvB>>
  /\ connect.outcomes = <<"listFails", "ok", "ok">>
  /\ MapKeys(serverConnections) = <<SrvAB, SrvB>>

\* the tools of the registered connections, in registry order
RECURSIVE ToolsOf(_)
ToolsOf(conns) ==
  IF Len(conns) = 0 THEN <<>>
  ELSE Head(conns).tools \o ToolsOf(Tail(conns))

\* C10: in every state the catalog is the concatenation, in registry order,
\* of the namespaced tools of the registered connections, and no entry
\* occurs twice.
C10_CatalogMatchesRegistry ==
  /\ allTools = ToolsOf(serverConnections)
  /\ \A i, j \in 1..Len(allTools) : allTools[i] = allTools[j] => i = j

\* the names cleanup tried to close, in the order of the attempts
ClosedNames == [i \in 1..Len(session.closeLog) |-> session.closeLog[i].name]

\* C11: when cleanup has returned it has tried to close every connection
\* that was registered, in registry order, whether or not earlier closes
\* failed; registry, catalog and history are empty; and cleanup can be
\* called and returns for every set of failing closes (it has no throwing
\* outcome).
C11_CleanupClosesAll ==
  /\ session.cleanup = "returned" =>
       /\ ClosedNames = session.closeBefore
       /\ serverConnections = <<>>
       /\ allTools = <<>>
       /\ conversationHistory = <<>>
  /\ (pc = "idle" /\ LoopIdle) =>
       \A closeFails \in CloseFailures : ENABLED Cleanup(closeFails)

\* cleanup returned after the first of three closes failed
C11_Witness ==
  /\ session.cleanup = "returned"
  /\ Len(session.closeLog) = 3
  /\ session.closeLog[1].failed
  /\ ~session.closeLog[2].failed


\* ------------------------------------------------ accumulator properties
\* the fragments consumed so far
Consumed == SubSeq(acc.input, 1, Len(acc.input) - Len(acc.rest))

\* the text of a fragment sequence: its contents in arrival order
RECURSIVE TextOf(_)
TextOf(fragments) ==
  IF Len(fragments) = 0 THEN <<>>
  ELSE Head(fragments).content \o TextOf(Tail(fragments))

\* the content handleStreamResponse accumulates from a fragment sequence
RECURSIVE StreamContent(_, _)
StreamContent(content, fragments) ==
  IF Len(fragments) = 0 THEN content
  ELSE StreamContent(AppendContent(content, Head(fragments).content),
                     Tail(fragments))

\* the content DataTransform accumulates from a fragment sequence
RECURSIVE TransformContent(_, _)
TransformContent(content, fragments) ==
  IF Len(fragments) = 0 THEN content
  ELSE TransformContent(content \o FormatMsg(content, Head(fragments).content),
                        Tail(fragments))

\* the content as the sentence describes it: the first non-empty fragment
\* without its leading whitespace, every later fragment verbatim
RECURSIVE FirstFragmentStripped(_)
FirstFragmentStripped(fragments) ==
  IF Len(fragments) = 0 THEN <<>>
  ELSE IF Head(fragments).content = <<>>
       THEN FirstFragmentStripped(Tail(fragments))
       ELSE TrimStart(Head(fragments).content) \o TextOf(Tail(fragments))

TextOnly(fragments) ==
  \A i \in 1..Len(fragments) : fragments[i].tool_calls = <<>>

\* C12 as stated: the returned content is the concatenation with the
\* leading whitespace of the first non-empty fragment stripped and the
\* later fragments verbatim.
C12_FirstFragmentStripped ==
  (acc.done /\ TextOnly(acc.input)) =>
     /\ acc.result.content = FirstFragmentStripped(acc.input)
     /\ acc.transformDone = FirstFragmentStripped(acc.input)

\* C12 amended: the content of handleStreamResponse is the plain
\* concatenation of the fragments, nothing stripped; the content of
\* DataTransform is that concatenation without its leading whitespace
\* (a fragment is trimmed as long as the content is still empty); both are
\* what the accumulator yields for the whole text in one fragment.
C12_ContentIsConcatenation ==
  /\ acc.currentContent = TextOf(Consumed)
  /\ acc.transformContent = TrimStart(TextOf(Consumed))
  /\ acc.done =>
       /\ acc.result.content = StreamContent(<<>>, <<Txt(TextOf(acc.input))>>)
       /\ acc.transformDone =
            TransformContent(<<>>, <<Txt(TextOf(acc.input))>>)

\* a whitespace fragment, then a fragment with leading whitespace
C12_Witness ==
  /\ acc.done
  /\ acc.input = <<Txt(<<" ">>), Txt(<<" ", "h">>)>>
  /\ acc.result.content = <<" ", " ", "h">>
  /\ acc.transformDone = <<"h">>

\* the number of fragments a slot received
SlotFragments(deltas, k) ==
  Cardinality({i \in 1..Len(deltas) : deltas[i].index = k})

\* C13: whatever the split points and the interleaving, the entry
\* accumulated for a slot is the entry accumulated from one fragment that
\* carries the slot's whole name and whole arguments text.
C13_SplitPointsAssociative ==
  \A k \in SlotIndexes(Consumed) :
     ArrayGet(acc.pendingToolCalls, k) =
       ArrayGet(AccumulateToolCall(<<>>,
                  Call(k, SlotName(DeltasOf(Consumed), k),
                          SlotArguments(DeltasOf(Consumed), k))), k)

\* slot 0 rebuilt from three fragments around a fragment of slot 2 and text
C13_Witness ==
  /\ acc.done
  /\ SlotFragments(DeltasOf(acc.input), 0) = 3
  /\ 2 \in SlotIndexes(acc.input)
  /\ TextOf(acc.input) # <<>>
  /\ acc.result.toolCalls[1].name = <<"a", "_", "r">>
  /\ acc.result.toolCalls[1].arguments = <<"{", "}">>

\* the i-th smallest of a set of slot indexes
NthSlot(slots, i) ==
  CHOOSE k \in slots : Cardinality({m \in slots : m < k}) = i - 1

\* C14: toolCalls has one entry per observed slot index, in ascending
\* slot order, and no hole.
C14_DenseAscending ==
  acc.done =>
    LET toolCalls == acc.result.toolCalls
        slots == SlotIndexes(acc.input)
        deltas == DeltasOf(acc.input)
    IN /\ Len(toolCalls) = Cardinality(slots)
       /\ \A i \in 1..Len(toolCalls) :
            /\ toolCalls[i] # Hole
            /\ toolCalls[i].name = SlotName(deltas, NthSlot(slots, i))
            /\ toolCalls[i].arguments = SlotArguments(deltas, NthSlot(slots, i))

\* only slot 2 was observed: slots 0 and 1 are holes of the array
C14_Witness ==
  /\ acc.done
  /\ SlotIndexes(acc.input) = {2}
  /\ Len(acc.pendingToolCalls) = 3
  /\ Len(acc.result.toolCalls) = 1

CallReconstructed == Len(turn.streamResult.toolCalls) > 0

\* the call processQuery dispatches
DispatchedCall == turn.streamResult.toolCalls[1]

DispatchedArgsParse ==
  JSONParse(ArgumentsOrEmptyObject(DispatchedCall.arguments)).ok

DispatchedServerLive ==
  MapHas(serverConnections,
         ResolveTool(DispatchedCall.name, serverConnections).serverName)

\* C16: malformed arguments text never stops the accumulation (every chunk
\* of the stream is consumed and the result returned before the parse
\* error); a dispatched call whose arguments do not parse fails the turn
\* with a SyntaxError, one whose name resolves to no live connection with
\* ServerNotFound; such a turn has called no tool server, has issued the
\* first request only, and the history is the history before the turn
\* followed by the user message and the streamed assistant text, if any.
C16_FailedDispatch ==
  /\ (pc = "stream1" /\ Len(turn.stream) > 0) => ENABLED StreamChunk
  /\ turn.error = "SyntaxError" =>
       (CallReconstructed /\ Len(turn.stream) = 0 /\ ~DispatchedArgsParse)
  /\ (CallReconstructed /\ ~DispatchedArgsParse) => turn.error = "SyntaxError"
  /\ (CallReconstructed /\ DispatchedArgsParse /\ Len(DispatchedCall.name) > 0
        /\ ~DispatchedServerLive) => turn.error = "ServerNotFound"
  /\ turn.error \in {"SyntaxError", "ServerNotFound"} =>
       /\ pc = "idle"
       /\ turn.status = "error"
       /\ turn.serverCalls = <<>>
       /\ Len(turn.requests) = 1
       /\ conversationHistory = HistoryAfterFirstStream

\* a second turn streams text and a call for a server that is not
\* connected
C16_Witness ==
  /\ turn.error = "ServerNotFound"
  /\ Len(turn.histAtStart) > 0
  /\ Len(turn.streamResult.content) > 0
  /\ Len(conversationHistory) = Len(turn.histAtStart) + 2


\* the turn failed in the LLM request, in a response stream or in the call
\* of the tool server
TurnFailed == pc = "idle" /\ turn.status = "error"

IsPrefix(a, b) == Len(a) <= Len(b) /\ SubSeq(b, 1, Len(a)) = a

\* C17: when the turn chatLoop started has failed, chatLoop can go on, and
\* its next step reports the failure and prompts again with the history as
\* the failed turn left it, which extends the history before the turn;
\* chatLoop only ever returns from a rejected prompt, never from a turn.
C17_LoopSurvivesTurnError ==
  /\ []((session.loop = "turn" /\ TurnFailed) =>
          /\ ENABLED ChatLoopAfterTurn
          /\ IsPrefix(Append(turn.histAtStart, UserMessage(turn.query)),
                      conversationHistory))
  /\ []((session.loop = "prompt" /\ session.report = "failed") =>
          /\ TurnFailed
          /\ IsPrefix(Append(turn.histAtStart, UserMessage(turn.query)),
                      conversationHistory))
  /\ [][(session.loop = "turn" /\ TurnFailed /\ session' # session) =>
          /\ session'.loop = "prompt"
          /\ session'.report = "failed"
          /\ conversationHistory' = conversationHistory]_vars
  /\ [][(session.loop # "quit" /\ session'.loop = "quit") =>
          session.loop = "prompt"]_vars

\* chatLoop prompts again after a turn whose tool-server call failed
C17_Witness ==
  /\ session.loop = "prompt"
  /\ session.report = "failed"
  /\ turn.error = "UpstreamError"
  /\ Len(turn.serverCalls) = 1
  /\ Len(turn.requests) = 1
  /\ Len(conversationHistory) > 0

\* C18: the first request of the first turn after a clear carries the new
\* user message and nothing else.
C18_FirstRequestAfterClear ==
  session.afterClear =>
    /\ Len(turn.requests) >= 1
    /\ turn.requests[1].messages = <<UserMessage(turn.query)>>

\* a turn was started after a clear that dropped the entries of earlier
\* turns
C18_Witness ==
  /\ session.afterClear
  /\ session.dropped
  /\ Len(turn.requests) >= 1
  /\ Len(turn.requests[1].messages) = 1

\* C20: every step other than clearConversationHistory and cleanup leaves
\* the history it found as a prefix of the history it leaves.
C20_AppendOnly ==
  [][(~ClearConversationHistory
        /\ ~(\E closeFails \in CloseFailures : Cleanup(closeFails)))
       => IsPrefix(conversationHistory, conversationHistory')]_vars

\* a failed turn after an earlier turn: the earlier entries are still there
C20_Witness ==
  /\ TurnFailed
  /\ Len(turn.histAtStart) > 0
  /\ Len(conversationHistory) > Len(turn.histAtStart)
  /\ IsPrefix(turn.histAtStart, conversationHistory)


\* --------------------------------------------- concurrent processQuery calls
NumCallers == 2

Callers == 1..NumCallers

CallerQuery(c) == <<"q", ToString(c)>>

\* the first responses: text only, or a call of tool r of server a
CallerStreams ==
  { << Txt(<<"h">>) >>,
    << Calls(<<Call(0, <<"a", "_", "r">>, ArgsEmpty)>>) >> }

CallerFollowUpStreams == { << Txt(<<"o">>) >> }

\* the tool calls handleStreamResponse accumulates from a fragment sequence
RECURSIVE StreamToolCalls(_, _)
StreamToolCalls(pending, fragments) ==
  IF Len(fragments) = 0 THEN pending
  ELSE StreamToolCalls(AccumulateToolCalls(pending, Head(fragments).tool_calls),
                       Tail(fragments))

\* a call of processQuery: its position, the message list handed to each
\* create() when it was called, and the request bodies as they were sent
NoCaller ==
  [pc |-> "idle", query |-> <<>>, submitted |-> <<>>, requests |-> <<>>,
   tempMessages |-> <<>>, finalText |-> <<>>, toolName |-> <<>>,
   toolArgs |-> <<>>, error |-> NoValue]

\* server a is connected, nobody has called processQuery
InitCallers ==
  /\ session = NoSession
  /\ handles = NoHandles
  /\ main = NoMain
  /\ chat = NoChat
  /\ sse = NoSse
  /\ acc = NoAcc
  /\ serverConnections =
       RegisterConnection(<<>>, SrvA,
                          NamespacedTools(SrvA, AdvertisedTools(SrvA)))
  /\ allTools = PushTools(<<>>, NamespacedTools(SrvA, AdvertisedTools(SrvA)))
  /\ conversationHistory = <<>>
  /\ pc = "idle"
  /\ connect = NoConnect
  /\ turn = NoTurn
  /\ callers = [c \in Callers |-> NoCaller]

\* processQuery up to its first await: the user message is pushed and
\* create() is handed this.conversationHistory itself
CallerProcessQuery(c) ==
  /\ callers[c].pc = "idle"
  /\ conversationHistory' =
       PushMessage(conversationHistory, UserMessage(CallerQuery(c)))
  /\ callers' = [callers EXCEPT ![c] = [@ EXCEPT
       !.pc = "create1",
       !.query = CallerQuery(c),
       !.submitted = Append(@, conversationHistory')]]
  /\ UNCHANGED <<serverConnections, allTools, pc, connect, turn, session, acc, handles,
                 main, chat, sse>>

\* the SDK builds the body of the first request from the object it was
\* handed, after create() has returned its promise
CallerSerializeFirst(c) ==
  /\ callers[c].pc = "create1"
  /\ callers' = [callers EXCEPT ![c] = [@ EXCEPT
       !.pc = "request1",
       !.requests = Append(@, FirstRequest(conversationHistory, allTools))]]
  /\ UNCHANGED <<serverConnections, allTools, conversationHistory, pc, connect,
                 turn, session, acc, handles,
                 main, chat, sse>>

\* the first response is streamed to its end and processQuery dispatches
\* the tool call, or returns when there is none
CallerFirstResponse(c, stream) ==
  /\ callers[c].pc = "request1"
  /\ LET content == StreamContent(<<>>, stream)
         toolCalls == FilterBoolean(StreamToolCalls(<<>>, stream))
         hasContent == HasContent(content)
         finalText == IF hasContent THEN <<content>> ELSE <<>>
         history == IF hasContent
                    THEN PushMessage(conversationHistory,
                                     AssistantMessage(content))
                    ELSE conversationHistory
     IN IF Len(toolCalls) = 0
        THEN /\ conversationHistory' = history
             /\ callers' = [callers EXCEPT ![c] = [@ EXCEPT
                  !.pc = "done", !.finalText = finalText]]
        ELSE LET toolCall == FirstToolCall(toolCalls)
                 parsed == ParseToolArgs(toolCall.arguments)
                 resolved == ResolveTool(toolCall.name, serverConnections)
                 failed == \/ ~parsed.ok
                           \/ Len(toolCall.name) = 0
                           \/ ~MapHas(serverConnections, resolved.serverName)
             IN /\ conversationHistory' = history
                /\ callers' = [callers EXCEPT ![c] = [@ EXCEPT
                     !.pc = IF failed THEN "done" ELSE "tool",
                     !.error = IF failed THEN "DispatchError" ELSE @,
                     !.finalText = finalText,
                     !.toolName = toolCall.name,
                     !.toolArgs = parsed.value]]
  /\ UNCHANGED <<serverConnections, allTools, pc, connect, turn, session, acc, handles,
                 main, chat, sse>>

\* the tool server answers; generateFollowUpResponse copies the history
\* into tempMessages and hands the copy to create()
CallerToolReturns(c, result) ==
  /\ callers[c].pc = "tool"
  /\ callers' = [callers EXCEPT ![c] = [@ EXCEPT
       !.pc = "create2",
       !.finalText = Append(@, Announcement(callers[c].toolName,
                                            callers[c].toolArgs)),
       !.tempMessages = TempMessages(conversationHistory, result),
       !.submitted = Append(@, TempMessages(conversationHistory, result))]]
  /\ UNCHANGED <<serverConnections, allTools, conversationHistory, pc, connect,
                 turn, session, acc, handles,
                 main, chat, sse>>

\* the SDK builds the body of the follow-up request from tempMessages
CallerSerializeFollowUp(c) ==
  /\ callers[c].pc = "create2"
  /\ callers' = [callers EXCEPT ![c] = [@ EXCEPT
       !.pc = "request2",
       !.requests = Append(@, FollowUpRequest(callers[c].tempMessages))]]
  /\ UNCHANGED <<serverConnections, allTools, conversationHistory, pc, connect,
                 turn, session, acc, handles,
                 main, chat, sse>>

\* the follow-up response is streamed to its end and processQuery returns
CallerFollowUpResponse(c, stream) ==
  /\ callers[c].pc = "request2"
  /\ LET finalText == Append(callers[c].finalText, StreamContent(<<>>, stream))
     IN /\ conversationHistory' =
             PushMessage(conversationHistory, FinalAssistantMessage(finalText))
        /\ callers' = [callers EXCEPT ![c] = [@ EXCEPT
             !.pc = "done", !.finalText = finalText]]
  /\ UNCHANGED <<serverConnections, allTools, pc, connect, turn, session, acc, handles,
                 main, chat, sse>>

NextCallers ==
  \/ \E c \in Callers : CallerProcessQuery(c)
  \/ \E c \in Callers : CallerSerializeFirst(c)
  \/ \E c \in Callers : \E stream \in CallerStreams :
        CallerFirstResponse(c, stream)
  \/ \E c \in Callers : \E result \in ToolResults : CallerToolReturns(c, result)
  \/ \E c \in Callers : CallerSerializeFollowUp(c)
  \/ \E c \in Callers : \E stream \in CallerFollowUpStreams :
        CallerFollowUpResponse(c, stream)

SpecCallers == InitCallers /\ [][NextCallers]_vars

\* C19: the message list of every request sent is the message list that
\* create() was handed when it was called: a message pushed afterwards, by
\* the same turn or by another call of processQuery, is not in it.
C19_RequestIsSnapshot ==
  \A c \in Callers :
    \A i \in 1..Len(callers[c].requests) :
      callers[c].requests[i].messages = callers[c].submitted[i]


\* the histories a running turn can have: the history at its start, its
\* user message, then the streamed text, then the final message
TurnHistories ==
  LET h1 == Append(turn.histAtStart, UserMessage(turn.query))
      h2 == IF Len(turn.streamResult.content) > 0
            THEN Append(h1, AssistantMessage(turn.streamResult.content))
            ELSE h1
      h3 == Append(h2, FinalAssistantMessage(turn.finalText))
  IN {h1, h2, h3}

\* C21: while chatLoop runs, it prompts only when no turn is running; a
\* user message is appended and a first request submitted only from the
\* prompt, after the previous turn returned or failed; and during a turn
\* the history is the history at its start followed by messages of that
\* turn only.
C21_TurnsSequential ==
  /\ [](session.loop = "prompt" =>
          (pc = "idle" /\ turn.status \in {NoValue, "ok", "error"}))
  /\ [](session.loop = "turn" => conversationHistory \in TurnHistories)
  /\ [][(session.loop \in {"prompt", "turn"}
           /\ session'.loop \in {"prompt", "turn"}
           /\ turn'.query # <<>>
           /\ (turn'.histAtStart # turn.histAtStart
                 \/ Len(turn'.requests) < Len(turn.requests)
                 \/ (Len(turn.requests) = 0 /\ Len(turn'.requests) = 1)))
          => /\ session.loop = "prompt"
             /\ pc = "idle"
             /\ turn.status \in {NoValue, "ok", "error"}
             /\ turn'.histAtStart = conversationHistory]_vars

\* the second turn of a chatLoop is streaming its answer
C21_Witness ==
  /\ session.loop = "turn"
  /\ pc = "stream1"
  /\ Len(turn.histAtStart) > 0
  /\ Len(turn.currentContent) > 0

\* the server a caller's pending tool call is addressed to
CallerServer(c) ==
  ResolveTool(callers[c].toolName, serverConnections).serverName

\* C22: no two calls of processQuery have a tool call pending on the same
\* server connection.
C22_OneCallPerConnection ==
  \A c \in Callers : \A d \in Callers :
    (c # d /\ callers[c].pc = "tool" /\ callers[d].pc = "tool")
      => CallerServer(c) # CallerServer(d)


\* the turn failed in the call of the tool server
ToolCallFailed ==
  TurnFailed /\ Len(turn.serverCalls) = 1 /\ Len(turn.requests) = 1

\* C25: after a tool call on a registered connection failed, the registry
\* no longer holds the entry of that connection.
C25_FailedConnectionRemoved ==
  ToolCallFailed => ~MapHas(serverConnections, turn.serverCalls[1].server)

\* the history a returned turn leaves: the history at its start, the user
\* message, the streamed text when not empty, the final message when a
\* tool was called
HistoryOfReturnedTurn ==
  Append(turn.histAtStart, UserMessage(turn.query))
    \o (IF Len(turn.streamResult.content) > 0
        THEN <<AssistantMessage(turn.streamResult.content)>> ELSE <<>>)
    \o (IF Len(turn.streamResult.toolCalls) > 0
        THEN <<AssistantMessage(turn.returned)>> ELSE <<>>)

\* C26 as stated: a returned turn has added the user message and exactly
\* one assistant message.
C26_TwoMessagesPerTurn ==
  TurnReturned =>
    /\ Len(conversationHistory) = Len(turn.histAtStart) + 2
    /\ conversationHistory[Len(turn.histAtStart) + 1] = UserMessage(turn.query)
    /\ conversationHistory[Len(turn.histAtStart) + 2].role = "assistant"

\* C26 amended: a returned turn has added the user message, then the
\* streamed text as an assistant message when it is not empty, then, when
\* a tool was called, one assistant message with the returned text: two
\* messages for text only and for a tool call only, three for both, one
\* for neither.
C26_MessagesPerTurn ==
  TurnReturned =>
    /\ conversationHistory = HistoryOfReturnedTurn
    /\ Len(conversationHistory) - Len(turn.histAtStart) =
         1 + (IF Len(turn.streamResult.content) > 0 THEN 1 ELSE 0)
           + (IF Len(turn.streamResult.toolCalls) > 0 THEN 1 ELSE 0)

\* a returned turn whose first generation gave text and a tool call
C26_Witness ==
  /\ TurnReturned
  /\ Len(turn.streamResult.content) > 0
  /\ Len(turn.streamResult.toolCalls) > 0
  /\ Len(conversationHistory) = Len(turn.histAtStart) + 3

\* C27: after a failed turn the history still starts with the history
\* before the turn and the turn's user message, followed by the streamed
\* text when it had been pushed, and the first request of a turn started
\* next carries the failed turn's user message at its place.
C27_NoRollback ==
  /\ [](TurnFailed =>
          /\ IsPrefix(Append(turn.histAtStart, UserMessage(turn.query)),
                      conversationHistory)
          /\ Len(turn.streamResult.content) > 0 =>
               conversationHistory = HistoryAfterFirstStream)
  /\ [][(TurnFailed /\ pc' = "request1") =>
          /\ turn'.requests[1].messages =
               Append(conversationHistory, UserMessage(turn'.query))
          /\ turn'.requests[1].messages[Len(turn.histAtStart) + 1] =
               UserMessage(turn.query)]_vars

\* the follow-up generation failed after the streamed text was pushed
C27_Witness ==
  /\ TurnFailed
  /\ Len(turn.requests) = 2
  /\ Len(turn.streamResult.content) > 0
  /\ conversationHistory = HistoryAfterFirstStream


\* ------------------------------------------- the clients behind the registry
MaxClients == 3

\* `await client.connect(transport)` resolved: a live client
ClientConnected(clients, serverName, registered) ==
  Append(clients, [server |-> serverName, open |-> TRUE, closes |-> 0,
                   registered |-> registered])

\* connectToSingleServer: the client it created, by outcome. A client whose
\* listTools rejects is connected but never stored; a registered client
\* takes the place of the client the name was mapped to.
TrackConnect(h, serverName, outcome) ==
  IF outcome = "connectFails" THEN h
  ELSE IF outcome = "listFails"
  THEN [h EXCEPT !.clients = ClientConnected(@, serverName, FALSE)]
  ELSE [clients |-> ClientConnected(h.clients, serverName, TRUE),
        owners |-> MapSet(h.owners, serverName,
                          [name |-> serverName, client |-> Len(h.clients) + 1])]

\* cleanup: close() is called on the client of every registry entry
TrackCleanup(h, closeFails) ==
  LET held == {h.owners[i].client : i \in 1..Len(h.owners)}
  IN [clients |-> [i \in 1..Len(h.clients) |->
                     IF i \in held
                     THEN [h.clients[i] EXCEPT
                             !.closes = @ + 1,
                             !.open = h.clients[i].server \in closeFails]
                     ELSE h.clients[i]],
      owners |-> <<>>]

InitTeardown == Init

TeardownConnectToServers(config) ==
  /\ Len(handles.clients) + Len(config) <= MaxClients
  /\ ConnectToServersStep(config)
  /\ UNCHANGED <<acc, callers, handles, main, chat, sse>>

TeardownConnectToSingleServer(outcome) ==
  /\ ConnectToSingleServerStep(outcome)
  /\ handles' = TrackConnect(handles, Head(connect.pending), outcome)
  /\ UNCHANGED <<acc, callers, main, chat, sse>>

TeardownConnectToServersEnd ==
  /\ ConnectToServersEndStep
  /\ UNCHANGED <<acc, callers, handles, main, chat, sse>>

TeardownCleanup(closeFails) ==
  /\ CleanupStep(closeFails)
  /\ handles' = TrackCleanup(handles, closeFails)
  /\ UNCHANGED <<acc, callers, main, chat, sse>>

NextTeardown ==
  \/ \E config \in Configs : TeardownConnectToServers(config)
  \/ \E outcome \in ConnectOutcomes : TeardownConnectToSingleServer(outcome)
  \/ TeardownConnectToServersEnd
  \/ \E closeFails \in CloseFailures : TeardownCleanup(closeFails)

SpecTeardown == InitTeardown /\ [][NextTeardown]_vars

\* C23: no client has close called on it twice, and once cleanup has
\* returned every client that was ever registered has had close called on
\* it exactly once.
C23_ClosedExactlyOnce ==
  /\ \A i \in 1..Len(handles.clients) : handles.clients[i].closes <= 1
  /\ session.cleanup = "returned" =>
       \A i \in 1..Len(handles.clients) :
          handles.clients[i].registered => handles.clients[i].closes = 1

\* C28: a client whose listTools failed is in no registry entry, and once
\* cleanup has returned it has been closed.
C28_NoUnownedOpenClient ==
  \A i \in 1..Len(handles.clients) :
    ~handles.clients[i].registered =>
       /\ \A j \in 1..Len(handles.owners) : handles.owners[j].client # i
       /\ session.cleanup = "returned" =>
            (handles.clients[i].closes = 1 /\ ~handles.clients[i].open)


\* ------------------------------------------------------------------- main
InitMain == Init

\* main: loadMCPConfig returned a configuration; connectToServers is called
MainLoadConfig(config) ==
  /\ main.pc = "start"
  /\ ConnectToServersStep(config)
  /\ main' = [main EXCEPT !.pc = "connect"]
  /\ UNCHANGED <<acc, callers, handles, chat, sse>>

\* main: loadMCPConfig throws; control goes to the catch block
MainLoadConfigFails ==
  /\ main.pc = "start"
  /\ main' = [main EXCEPT !.pc = "catch"]
  /\ UNCHANGED <<serverConnections, allTools, conversationHistory, pc, connect,
                 turn, session, acc, callers, handles, chat, sse>>

MainConnectToSingleServer(outcome) ==
  /\ main.pc = "connect"
  /\ ConnectToSingleServerStep(outcome)
  /\ handles' = TrackConnect(handles, Head(connect.pending), outcome)
  /\ UNCHANGED <<acc, callers, main, chat, sse>>

\* connectToServers returns, or throws into the catch block of main
MainConnectToServersEnd ==
  /\ main.pc = "connect"
  /\ ConnectToServersEndStep
  /\ main' = [main EXCEPT
       !.pc = IF NoServerConnected(serverConnections) THEN "catch"
              ELSE "connected"]
  /\ UNCHANGED <<acc, callers, handles, chat, sse>>

\* main calls chatLoop
MainChatLoop ==
  /\ main.pc = "connected"
  /\ ChatLoopStep
  /\ main' = [main EXCEPT !.pc = "chat"]
  /\ UNCHANGED <<acc, callers, handles, chat, sse>>

\* the prompt rejects (the user interrupts): chatLoop returns and main
\* enters its finally block
MainChatLoopQuit ==
  /\ main.pc = "chat"
  /\ ChatLoopQuitStep
  /\ main' = [main EXCEPT !.pc = "finally"]
  /\ UNCHANGED <<acc, callers, handles, chat, sse>>

\* the catch block of main: console.error, then process.exit(1) ends the
\* process; the finally block does not run
MainCatch ==
  /\ main.pc = "catch"
  /\ main' = [main EXCEPT !.pc = "exited", !.exitCode = 1]
  /\ UNCHANGED <<serverConnections, allTools, conversationHistory, pc, connect,
                 turn, session, acc, callers, handles, chat, sse>>

\* the finally block of main: cleanup, then process.exit(0)
MainFinally(closeFails) ==
  /\ main.pc = "finally"
  /\ CleanupStep(closeFails)
  /\ handles' = TrackCleanup(handles, closeFails)
  /\ main' = [main EXCEPT !.pc = "exited", !.exitCode = 0]
  /\ UNCHANGED <<acc, callers, chat, sse>>

NextMain ==
  \/ \E config \in Configs : MainLoadConfig(config)
  \/ MainLoadConfigFails
  \/ \E outcome \in ConnectOutcomes : MainConnectToSingleServer(outcome)
  \/ MainConnectToServersEnd
  \/ MainChatLoop
  \/ \E message \in Queries : ChatLoopQuestion(message)
  \/ \E stream \in Streams : FirstResponse(stream)
  \/ RequestFails
  \/ StreamChunk
  \/ StreamBreaks
  \/ FirstStreamEnd
  \/ \E result \in ToolResults : ToolReturns(result)
  \/ ToolFails
  \/ \E stream \in FollowUpStreams : FollowUpResponse(stream)
  \/ FollowUpChunk
  \/ FollowUpEnd
  \/ ChatLoopAfterTurn
  \/ MainChatLoopQuit
  \/ MainCatch
  \/ \E closeFails \in CloseFailures : MainFinally(closeFails)

SpecMain == InitMain /\ [][NextMain]_vars

\* C24: when main has exited, cleanup has run.
C24_CleanupBeforeExit ==
  main.pc = "exited" => session.cleanup = "returned"


\* ---------------------------------------------------------- ChatGptClient
MaxEnqueued == 7

\* new LimitQueue(5)
Capacity == 5

\* enqueue on a full queue drops the newest element of the queue
EnqueueEvictNewest(queue, item) ==
  Append(IF Len(queue) = Capacity THEN SubSeq(queue, 1, Len(queue) - 1)
         ELSE queue, item)

\* LimitQueue.enqueue: shift when the queue is full, then push
Enqueue(queue, item) ==
  Append(IF Len(queue) = Capacity THEN Tail(queue) ELSE queue, item)

\* the messages of the request: the system prompt, if any, and the queue
ChatMessages(systemPrompt, queue) ==
  IF Len(systemPrompt) > 0
  THEN <<[role |-> "system", content |-> systemPrompt]>> \o queue
  ELSE queue

\* the text messages of a response
ChatResponses == { << >>, << Txt(<<" ", "h">>), Txt(<<"i">>) >> }

InitChat ==
  /\ session = NoSession
  /\ acc = NoAcc
  /\ callers = NoCallers
  /\ handles = NoHandles
  /\ main = NoMain
  /\ sse = NoSse
  /\ serverConnections = <<>>
  /\ allTools = <<>>
  /\ conversationHistory = <<>>
  /\ pc = "idle"
  /\ connect = NoConnect
  /\ turn = NoTurn
  /\ chat \in { [NoChat EXCEPT !.systemPrompt = p] : p \in { <<>>, <<"s">> } }

\* createChatCompletion up to the await of the request
CreateChatCompletion(content) ==
  /\ chat.pc = "idle"
  /\ Len(chat.enqueued) < MaxEnqueued
  /\ LET queue == Enqueue(chat.queue, UserMessage(content))
     IN chat' = [chat EXCEPT
          !.pc = "request",
          !.queue = queue,
          !.enqueued = Append(@, UserMessage(content)),
          !.failed = FALSE,
          !.messages = ChatMessages(chat.systemPrompt, queue)]
  /\ UNCHANGED <<serverConnections, allTools, conversationHistory, pc, connect,
                 turn, session, acc, callers, handles, main, sse>>

\* axios.post rejects: createChatCompletion rejects
ChatRequestFails ==
  /\ chat.pc = "request"
  /\ chat' = [chat EXCEPT !.pc = "idle", !.failed = TRUE]
  /\ UNCHANGED <<serverConnections, allTools, conversationHistory, pc, connect,
                 turn, session, acc, callers, handles, main, sse>>

\* the response was piped through DataTransform; its flush callback
\* enqueues the assistant message
ChatResponseFlushed(response) ==
  /\ chat.pc = "request"
  /\ LET message == AssistantMessage(TransformContent(<<>>, response))
     IN chat' = [chat EXCEPT
          !.pc = "idle",
          !.queue = Enqueue(@, message),
          !.enqueued = Append(@, message)]
  /\ UNCHANGED <<serverConnections, allTools, conversationHistory, pc, connect,
                 turn, session, acc, callers, handles, main, sse>>

NextChat ==
  \/ \E content \in { <<"q">>, <<"p">> } : CreateChatCompletion(content)
  \/ ChatRequestFails
  \/ \E response \in ChatResponses : ChatResponseFlushed(response)

SpecChat == InitChat /\ [][NextChat]_vars

\* the last n elements of a sequence
LastN(seq, n) == SubSeq(seq, Len(seq) - n + 1, Len(seq))

\* C29: the queue never holds more than Capacity messages; it is the last
\* Capacity (or all, when fewer) of the messages ever enqueued, in enqueue
\* order; after a failed request its last element is the user message of
\* that request.
C29_QueueIsRecentWindow ==
  /\ Len(chat.queue) <= Capacity
  /\ chat.queue = LastN(chat.enqueued,
                        IF Len(chat.enqueued) < Capacity
                        THEN Len(chat.enqueued) ELSE Capacity)
  /\ chat.failed =>
       /\ Len(chat.queue) > 0
       /\ chat.queue[Len(chat.queue)] = chat.enqueued[Len(chat.enqueued)]
       /\ chat.queue[Len(chat.queue)].role = "user"

\* a request failed on a full queue after seven messages were enqueued
C29_Witness ==
  /\ chat.failed
  /\ Len(chat.enqueued) = 7
  /\ Len(chat.queue) = Capacity
  /\ chat.queue[1] = chat.enqueued[3]


\* ------------------------------------------- DataTransform on the transport
MaxEvents == 2

\* the data events of a response: a delta with content, or the end marker
Events ==
  { [kind |-> "delta", content |-> <<"h">>],
    [kind |-> "delta", content |-> <<" ", "h">>],
    [kind |-> "done", content |-> <<>>] }

EventSeqs == UNION { [1..n -> Events] : n \in 0..MaxEvents }

\* the bytes the server writes for one event, as tokens: the field name, the
\* braces of the JSON payload around the characters of delta.content or the
\* end marker, and two line feeds
EventBytes(event) ==
  IF event.kind = "done" THEN <<"data: ", "[DONE]", "\n", "\n">>
  ELSE <<"data: ", "{">> \o event.content \o <<"}", "\n", "\n">>

RECURSIVE ResponseBytes(_)
ResponseBytes(events) ==
  IF Len(events) = 0 THEN <<>>
  ELSE EventBytes(Head(events)) \o ResponseBytes(Tail(events))

\* String.prototype.trim
RECURSIVE TrimEnd(_)
TrimEnd(s) ==
  IF Len(s) > 0 /\ IsWhitespace(s[Len(s)])
  THEN TrimEnd(SubSeq(s, 1, Len(s) - 1)) ELSE s

\* chunkStr.split('\n\n')
RECURSIVE SplitEvents(_)
SplitEvents(s) ==
  LET at == {i \in 1..(Len(s) - 1) : s[i] = "\n" /\ s[i + 1] = "\n"}
  IN IF at = {} THEN <<s>>
     ELSE LET i == CHOOSE k \in at : \A m \in at : k <= m
          IN <<SubSeq(s, 1, i - 1)>> \o SplitEvents(SubSeq(s, i + 2, Len(s)))

\* item.replace('data: ', ''): the first occurrence is removed
RemoveDataPrefix(item) ==
  LET at == {i \in 1..Len(item) : item[i] = "data: "}
  IN IF at = {} THEN item
     ELSE LET i == CHOOSE k \in at : \A m \in at : k <= m
          IN SubSeq(item, 1, i - 1) \o SubSeq(item, i + 1, Len(item))

\* safeParse(data) followed by dataObj?.choices?.[0]?.delta?.content: the
\* content of a complete JSON payload, nothing when JSON.parse throws
SafeParseContent(data) ==
  LET t == TrimEnd(TrimStart(data))
  IN IF /\ Len(t) >= 2
        /\ t[1] = "{"
        /\ t[Len(t)] = "}"
        /\ \A i \in 2..(Len(t) - 1) : t[i] \in {"h", " "}
     THEN SubSeq(t, 2, Len(t) - 1)
     ELSE <<>>

\* the body of dataArr.forEach for one item: the content after it
TransformItem(content, item) ==
  LET data == RemoveDataPrefix(item)
      msg == IF data = <<"[DONE]">> THEN <<>> ELSE SafeParseContent(data)
  IN IF Len(msg) > 0 THEN content \o FormatMsg(content, msg) ELSE content

RECURSIVE TransformItems(_, _)
TransformItems(content, items) ==
  IF Len(items) = 0 THEN content
  ELSE TransformItems(TransformItem(content, Head(items)), Tail(items))

\* DataTransform._transform: the content after one chunk
TransformChunk(content, chunk) ==
  TransformItems(content, SplitEvents(TrimEnd(TrimStart(chunk))))

NewSse(events) ==
  [events |-> events, rest |-> ResponseBytes(events), content |-> <<>>,
   pushed |-> <<>>, done |-> <<>>]

InitTransport ==
  /\ session = NoSession
  /\ acc = NoAcc
  /\ callers = NoCallers
  /\ handles = NoHandles
  /\ main = NoMain
  /\ chat = NoChat
  /\ serverConnections = <<>>
  /\ allTools = <<>>
  /\ conversationHistory = <<>>
  /\ pc = "idle"
  /\ connect = NoConnect
  /\ turn = NoTurn
  /\ sse \in { NewSse(events) : events \in EventSeqs }

\* the transport delivers the next n bytes as one chunk to _transform
TransportChunk(n) ==
  /\ sse.done = <<>>
  /\ n \in 1..Len(sse.rest)
  /\ LET content == TransformChunk(sse.content, SubSeq(sse.rest, 1, n))
     IN sse' = [sse EXCEPT
          !.rest = SubSeq(@, n + 1, Len(@)),
          !.content = content,
          !.pushed = @ \o SubSeq(content, Len(sse.content) + 1, Len(content))]
  /\ UNCHANGED <<serverConnections, allTools, conversationHistory, pc, connect,
                 turn, session, acc, callers, handles, main, chat>>

\* the response ends: _flush calls done(content) and pushes two line feeds
TransportEnd ==
  /\ sse.done = <<>>
  /\ Len(sse.rest) = 0
  /\ sse' = [sse EXCEPT !.done = Append(@, sse.content),
                        !.pushed = @ \o <<"\n", "\n">>]
  /\ UNCHANGED <<serverConnections, allTools, conversationHistory, pc, connect,
                 turn, session, acc, callers, handles, main, chat>>

NextTransport ==
  \/ \E n \in 1..Len(sse.rest) : TransportChunk(n)
  \/ TransportEnd

SpecTransport == InitTransport /\ [][NextTransport]_vars

\* the content when every event arrives as a chunk of its own
RECURSIVE ContentByEvent(_, _)
ContentByEvent(content, events) ==
  IF Len(events) = 0 THEN content
  ELSE ContentByEvent(TransformChunk(content, EventBytes(Head(events))),
                      Tail(events))

\* C30: the content handed to the done callback is reported once and is
\* the content of the events delivered one per chunk, however the bytes
\* were divided into chunks.
C30_ChunkingIndependent ==
  sse.done # <<>> =>
    /\ Len(sse.done) = 1
    /\ sse.done[1] = ContentByEvent(<<>>, sse.events)

====
